---------------------------- MODULE Spec2Model ----------------------------
(***************************************************************************)
(* View-sequence reconciliation of xarvic/xilem: src/view/sequence.rs      *)
(* (trait ViewSequence, Concat, the impl_view_tuple! implementations) as a *)
(* state machine.  A parent holds one sequence value (view), its State     *)
(* (state) and the shared element list (elements) and calls build once,    *)
(* then rebuild / event / to_stable / from_stable / request in any order.  *)
(*                                                                         *)
(* The child views of a tuple and the generic sequence a Concat is         *)
(* instantiated with are the environment: what a child's rebuild or event  *)
(* returns is an input of the action that calls it.                        *)
(*                                                                         *)
(* Two further state machines share the variables: the lazy-view wrapper   *)
(* of src/view/wrapper.rs (SpecWrapper) and the LinearLayout widget of     *)
(* src/widget/linear_layout.rs (SpecLayout).                               *)
(***************************************************************************)
EXTENDS Integers, Sequences, FiniteSets, TLC

(***************************************************************************)
(* Bounds of the model.                                                    *)
(***************************************************************************)
\* tuple arities used as the children of a Concat
MaxLeaf == 2
\* ids a pass of rebuilds may mint after build
MaxNewIds == 1
\* children whose rebuild reports a change in one pass
MaxChanged == 2
\* positions and stable indices tried beyond the last valid one
MaxBeyond == 2
\* |start| and |end| of the offset ranges handed to request
MaxOff == 2
\* mutations of the app state by event handlers
MaxApp == 1
\* elements of the generic (externally implemented) sequence
MaxExt == 2

(***************************************************************************)
(* Program constants.                                                      *)
(***************************************************************************)
\* impl_view_tuple!(10; ...): the largest arity implemented
MaxTupleArity == 10
\* type Index = u8
U8Max == 255
\* Either::Left / Either::Right, the tags of Concat's Index
LEFT == -1
RIGHT == -2

(***************************************************************************)
(* Sequence values.  A stable index is a sequence of integers: <<n>> for a *)
(* tuple's u8, and the child's index behind LEFT or RIGHT for a Concat.    *)
(***************************************************************************)
Tup(n) == [kind |-> "tuple", n |-> n]
Concat(u, v) == [kind |-> "concat", u |-> u, v |-> v]
Ext == [kind |-> "ext"]

Left(ix) == <<LEFT>> \o ix
Right(ix) == <<RIGHT>> \o ix

\* enum Position
First == [tag |-> "First", n |-> 0]
Last == [tag |-> "Last", n |-> 0]
Sequence(n) == [tag |-> "Sequence", n |-> n]

\* the value of a call that panicked
Panic == [ok |-> FALSE, val |-> <<>>]
Ok(v) == [ok |-> TRUE, val |-> v]

Leaves == {Tup(n) : n \in 1..MaxLeaf}
Shapes ==
    {Tup(n) : n \in 1..MaxTupleArity}
    \cup {Concat(u, v) : u, v \in Leaves \cup {Ext}}
    \cup {Concat(Tup(3), Tup(2)),
          Concat(Concat(Tup(1), Tup(2)), Tup(1)),
          Concat(Tup(1), Concat(Tup(2), Tup(1))),
          Concat(Tup(2), Concat(Tup(1), Tup(1))),
          Concat(Tup(1), Concat(Ext, Tup(1)))}

RECURSIVE HasExt(_)
HasExt(view) ==
    CASE view.kind = "tuple" -> FALSE
      [] view.kind = "ext" -> TRUE
      [] OTHER -> HasExt(view.u) \/ HasExt(view.v)

\* the sequence at path under view, and its state
RECURSIVE SubView(_, _)
SubView(view, path) ==
    IF path = <<>> THEN view
    ELSE SubView(IF Head(path) = LEFT THEN view.u ELSE view.v, Tail(path))

RECURSIVE SubState(_, _)
SubState(s, path) ==
    IF path = <<>> THEN s
    ELSE SubState(IF Head(path) = LEFT THEN s.u ELSE s.v, Tail(path))

(***************************************************************************)
(* count                                                                   *)
(***************************************************************************)
RECURSIVE count(_, _)
\* a Concat that counts its first child only
countOfFirst(view, s) ==
    CASE view.kind = "tuple" -> view.n
      [] view.kind = "ext" -> Len(s.els)
      [] OTHER -> count(view.u, s.u)

count(view, s) ==
    CASE view.kind = "tuple" -> view.n
      [] view.kind = "ext" -> Len(s.els)
      [] OTHER -> count(view.u, s.u) + count(view.v, s.v)

(***************************************************************************)
(* to_stable                                                               *)
(***************************************************************************)
\* n.try_into().unwrap() into u8
TryIntoU8(n) == IF n >= 0 /\ n <= U8Max THEN Ok(<<n>>) ELSE Panic

TupleToStable(view, position) ==
    CASE position.tag = "First" -> Ok(<<0>>)
      [] position.tag = "Sequence" -> TryIntoU8(position.n)
      [] OTHER -> Ok(<<view.n - 1>>)

\* the child's index as a value of Either<U::Index, V::Index>: the source
\* returns the child's index as it is, and the only variant of Self::Index
\* that can hold an index of self.0 is Left, of self.1 Right
Tag(side, r) == IF r.ok THEN Ok(<<side>> \o r.val) ELSE Panic

RECURSIVE to_stable(_, _, _)
\* a Concat that sends the position count(U) into U
ConcatToStableBoundary(view, s, position) ==
    CASE position.tag = "First" -> Tag(LEFT, to_stable(view.u, s.u, First))
      [] position.tag = "Sequence" ->
            LET first_length == count(view.u, s.u)
            IN  IF position.n <= first_length
                THEN Tag(LEFT, to_stable(view.u, s.u, Sequence(position.n)))
                ELSE Tag(RIGHT, to_stable(view.v, s.v,
                                          Sequence(position.n - first_length)))
      [] OTHER -> Tag(RIGHT, to_stable(view.v, s.v, Last))

ConcatToStable(view, s, position) ==
    CASE position.tag = "First" -> Tag(LEFT, to_stable(view.u, s.u, First))
      [] position.tag = "Sequence" ->
            LET first_length == count(view.u, s.u)
            IN  IF position.n < first_length
                THEN Tag(LEFT, to_stable(view.u, s.u, Sequence(position.n)))
                ELSE Tag(RIGHT, to_stable(view.v, s.v,
                                          Sequence(position.n - first_length)))
      [] OTHER -> Tag(RIGHT, to_stable(view.v, s.v, Last))

to_stable(view, s, position) ==
    IF view.kind = "tuple" THEN TupleToStable(view, position)
    ELSE ConcatToStable(view, s, position)

(***************************************************************************)
(* from_stable: <<position, hit>>                                          *)
(***************************************************************************)
TupleFromStable(view, index) == [pos |-> index[1], hit |-> TRUE]

RECURSIVE from_stable(_, _, _)
\* a Concat that forgets to shift V's positions by U's count
ConcatFromStableNoShift(view, s, index) ==
    IF Head(index) = LEFT
    THEN from_stable(view.u, s.u, Tail(index))
    ELSE from_stable(view.v, s.v, Tail(index))

ConcatFromStable(view, s, index) ==
    IF Head(index) = LEFT
    THEN from_stable(view.u, s.u, Tail(index))
    ELSE LET first_len == count(view.u, s.u)
             r == from_stable(view.v, s.v, Tail(index))
         IN  [pos |-> first_len + r.pos, hit |-> r.hit]

from_stable(view, s, index) ==
    IF view.kind = "tuple" THEN TupleFromStable(view, index)
    ELSE ConcatFromStable(view, s, index)

\* the values of type Index tried on a sequence
RECURSIVE Indices(_)
Indices(view) ==
    IF view.kind = "tuple"
    THEN {<<n>> : n \in (0..(view.n - 1 + MaxBeyond)) \cup {U8Max}}
    ELSE {Left(i) : i \in Indices(view.u)} \cup {Right(i) : i \in Indices(view.v)}

(***************************************************************************)
(* build                                                                   *)
(***************************************************************************)
\* View::build of child i mints the id `id`.  The child's state and widget
\* are opaque to the sequence, which only stores and hands them on: each is
\* the tag of the child it belongs to
ChildState(id) == [tag |-> id]

RECURSIVE build(_, _, _)
build(view, next, ext) ==
    CASE view.kind = "tuple" ->
            [state |-> [ids |-> [i \in 1..view.n |-> next + i - 1],
                        st |-> [i \in 1..view.n |-> ChildState(next + i - 1)]],
             els |-> [i \in 1..view.n |-> next + i - 1],
             next |-> next + view.n]
      [] view.kind = "ext" ->
            [state |-> [els |-> [i \in 1..ext |-> next + i - 1]],
             els |-> [i \in 1..ext |-> next + i - 1],
             next |-> next + ext]
      [] OTHER ->
            LET bu == build(view.u, next, ext)
                bv == build(view.v, bu.next, ext)
            IN  [state |-> [u |-> bu.state, v |-> bv.state],
                 els |-> bu.els \o bv.els,
                 next |-> bv.next]

(***************************************************************************)
(* rebuild.  env is what the environment does in this pass: env.ch the     *)
(* children (by tag) whose View::rebuild reports a change, env.nw those of *)
(* them that replace their id, env.ec the count the generic sequence has   *)
(* after its rebuild.  path is the place of the sequence under the root.   *)
(* The result carries the log of the calls made: a "seq" entry per         *)
(* sequence rebuilt (the offset it was handed and its count on entry) and  *)
(* a "child" entry per child view rebuilt (the element it was handed and   *)
(* whether request_update was called on that element).                     *)
(***************************************************************************)
SeqEntry(path, offset, cnt) ==
    [k |-> "seq", node |-> path, off |-> offset, slot |-> -1, el |-> -1,
     changed |-> FALSE, cnt |-> cnt]
ChildEntry(path, offset, slot, el, changed) ==
    [k |-> "child", node |-> path, off |-> offset, slot |-> slot, el |-> el,
     changed |-> changed, cnt |-> 0]

\* ids minted by the children of slots 1..i-1 in this pass
Minted(s, env, i) == Cardinality({j \in 1..(i - 1) : s.st[j].tag \in env.nw})

\* the element a tuple hands to the child of slot i (0-based): els[$i]
TupleElement(offset, i) == i

\* a tuple that recreates the widget of a child that replaced its id
TupleRebuildRecreate(view, s, els, offset, path, env, next) ==
    LET n == view.n
        chg(i) == s.st[i].tag \in env.ch
        slot(k) == k - offset
        fresh(k) == slot(k) \in 1..n /\ s.st[slot(k)].tag \in env.nw
    IN  [ok |-> \A i \in 1..n : TupleElement(offset, i - 1) < Len(els),
         state |-> [ids |-> [i \in 1..n |->
                               IF s.st[i].tag \in env.nw
                               THEN next + Minted(s, env, i)
                               ELSE s.ids[i]],
                    st |-> s.st],
         els |-> [k \in 1..Len(els) |->
                    IF fresh(k) THEN next + Minted(s, env, slot(k)) ELSE els[k]],
         flags |-> \E i \in 1..n : chg(i),
         log |-> <<SeqEntry(path, offset, n)>> \o
                 [i \in 1..n |->
                    ChildEntry(path, offset, i - 1,
                               TupleElement(offset, i - 1), chg(i))],
         next |-> next + Minted(s, env, n + 1)]

\* a tuple that stores a replaced id in the slot after the child's
TupleRebuildMisaligned(view, s, els, offset, path, env, next) ==
    LET n == view.n
        chg(i) == s.st[i].tag \in env.ch
        from(i) == ((i + n - 2) % n) + 1
    IN  [ok |-> \A i \in 1..n : TupleElement(offset, i - 1) < Len(els),
         state |-> [ids |-> [i \in 1..n |->
                               IF s.st[from(i)].tag \in env.nw
                               THEN next + Minted(s, env, from(i))
                               ELSE s.ids[i]],
                    st |-> s.st],
         els |-> els,
         flags |-> \E i \in 1..n : chg(i),
         log |-> <<SeqEntry(path, offset, n)>> \o
                 [i \in 1..n |->
                    ChildEntry(path, offset, i - 1,
                               TupleElement(offset, i - 1), chg(i))],
         next |-> next + Minted(s, env, n + 1)]

TupleRebuild(view, s, els, offset, path, env, next) ==
    LET n == view.n
        chg(i) == s.st[i].tag \in env.ch
    IN  [ok |-> \A i \in 1..n : TupleElement(offset, i - 1) < Len(els),
         state |-> [ids |-> [i \in 1..n |->
                               IF s.st[i].tag \in env.nw
                               THEN next + Minted(s, env, i)
                               ELSE s.ids[i]],
                    st |-> s.st],
         els |-> els,
         flags |-> \E i \in 1..n : chg(i),
         log |-> <<SeqEntry(path, offset, n)>> \o
                 [i \in 1..n |->
                    ChildEntry(path, offset, i - 1,
                               TupleElement(offset, i - 1), chg(i))],
         next |-> next + Minted(s, env, n + 1)]

\* a sequence implemented outside this file: it replaces its own elements,
\* elements[offset .. offset + count), by env.ec elements
ExtRebuild(s, els, offset, path, env, next) ==
    LET old == Len(s.els)
        grow == IF env.ec > old THEN env.ec - old ELSE 0
        mine == IF env.ec <= old
                THEN SubSeq(s.els, 1, env.ec)
                ELSE s.els \o [i \in 1..grow |-> next + i - 1]
    IN  [ok |-> offset + old <= Len(els),
         state |-> [els |-> mine],
         els |-> SubSeq(els, 1, offset) \o mine
                 \o SubSeq(els, offset + old + 1, Len(els)),
         flags |-> env.ec # old,
         log |-> <<SeqEntry(path, offset, old)>>,
         next |-> next + grow]

\* the offset Concat hands to U
ConcatOffsetU(offset) == 0
\* a Concat that reads U's count before rebuilding U
ConcatOffsetVCached(offset, cntBefore, cntAfter) == cntBefore

\* the offset Concat hands to V: U's count, read after U's rebuild
ConcatOffsetV(offset, cntBefore, cntAfter) == cntAfter

RECURSIVE rebuild(_, _, _, _, _, _, _)
ConcatRebuild(view, s, els, offset, path, env, next) ==
    LET ru == rebuild(view.u, s.u, els, ConcatOffsetU(offset),
                      Append(path, LEFT), env, next)
        off2 == ConcatOffsetV(offset, count(view.u, s.u), count(view.u, ru.state))
        rv == rebuild(view.v, s.v, ru.els, off2, Append(path, RIGHT), env, ru.next)
    IN  [ok |-> ru.ok /\ rv.ok,
         state |-> [u |-> ru.state, v |-> rv.state],
         els |-> rv.els,
         flags |-> ru.flags \/ rv.flags,
         log |-> <<SeqEntry(path, offset, count(view, s))>> \o ru.log \o rv.log,
         next |-> rv.next]

rebuild(view, s, els, offset, path, env, next) ==
    CASE view.kind = "tuple" -> TupleRebuild(view, s, els, offset, path, env, next)
      [] view.kind = "ext" -> ExtRebuild(s, els, offset, path, env, next)
      [] OTHER -> ConcatRebuild(view, s, els, offset, path, env, next)

\* the tags of the child views of a sequence
RECURSIVE Children(_, _)
Children(v, s) ==
    CASE v.kind = "tuple" -> {s.st[i].tag : i \in 1..v.n}
      [] v.kind = "ext" -> {}
      [] OTHER -> Children(v.u, s.u) \cup Children(v.v, s.v)

\* the sets of at most k elements of S
UpTo(S, k) == {T \in SUBSET S : Cardinality(T) <= k}

(***************************************************************************)
(* event.  env is what the child view does if its event is invoked:        *)
(* env.res the EventResult it returns and env.mut whether it mutates the   *)
(* app state while handling.  The result carries the                       *)
(* log of the events invoked: for a child view the slot, the id path and   *)
(* the state it was handed, for a child sequence (slot -1) its place in    *)
(* the nesting, the id path and the state it was handed.                   *)
(***************************************************************************)
EventResults == {"Action", "Nop", "Stale"}

\* a chain whose comparisons are shifted by one slot
TupleMatchNext(ids, hd) ==
    IF \E i \in 1..Len(ids) : ids[i] = hd
    THEN ((CHOOSE i \in 1..Len(ids) : ids[i] = hd) % Len(ids)) + 1
    ELSE 0

\* a chain whose final else falls into the first child instead of Stale
TupleMatchDefaultFirst(ids, hd) ==
    IF \E i \in 1..Len(ids) : ids[i] = hd
    THEN CHOOSE i \in 1..Len(ids) : ids[i] = hd
    ELSE 1

\* the slot (1-based) of the if / else-if chain that takes the head, 0 if none
TupleMatch(ids, hd) ==
    IF \E i \in 1..Len(ids) : ids[i] = hd
    THEN CHOOSE i \in 1..Len(ids) :
            ids[i] = hd /\ \A j \in 1..(i - 1) : ids[j] # hd
    ELSE 0

\* the id path the matched child is handed: &id_path[1..]
TupleTail(id_path) == Tail(id_path)

TupleEvent(view, s, id_path, path, env, app) ==
    IF id_path = <<>>
    THEN [ok |-> FALSE, res |-> "Stale", state |-> s, app |-> app, log |-> <<>>]
    ELSE LET i == TupleMatch(s.ids, Head(id_path))
         IN  IF i = 0
             THEN [ok |-> TRUE, res |-> "Stale", state |-> s, app |-> app,
                   log |-> <<>>]
             ELSE [ok |-> TRUE,
                   res |-> env.res,
                   state |-> s,
                   app |-> IF env.mut THEN app + 1 ELSE app,
                   log |-> <<[node |-> path, slot |-> i - 1,
                              tl |-> TupleTail(id_path), st |-> s.st[i]]>>]

\* EventResult::or: whether the alternative is evaluated
OrFallsBack(res) == res = "Stale"

\* the log entry of an event call made to a child sequence
SeqEvent(path, id_path, s) == [node |-> path, slot |-> -1, tl |-> id_path, st |-> s]

\* the entries of a log that are events of child views
ChildEvents(log) == SelectSeq(log, LAMBDA e : e.slot >= 0)

RECURSIVE event(_, _, _, _, _, _)
\* a Concat that hands the event to V whatever U returned
ConcatEventBoth(view, s, id_path, path, env, app) ==
    LET pu == Append(path, LEFT)
        pv == Append(path, RIGHT)
        eu == event(view.u, s.u, id_path, pu, env, app)
        ev == event(view.v, s.v, id_path, pv, env, eu.app)
    IN  [ok |-> eu.ok /\ ev.ok,
         res |-> IF OrFallsBack(eu.res) THEN ev.res ELSE eu.res,
         state |-> [u |-> eu.state, v |-> ev.state],
         app |-> ev.app,
         log |-> <<SeqEvent(pu, id_path, s.u)>> \o eu.log
                 \o <<SeqEvent(pv, id_path, s.v)>> \o ev.log]

ConcatEvent(view, s, id_path, path, env, app) ==
    LET pu == Append(path, LEFT)
        pv == Append(path, RIGHT)
        eu == event(view.u, s.u, id_path, pu, env, app)
        ev == event(view.v, s.v, id_path, pv, env, eu.app)
    IN  IF ~eu.ok
        THEN [ok |-> FALSE, res |-> "Stale", state |-> [s EXCEPT !.u = eu.state],
              app |-> eu.app, log |-> <<SeqEvent(pu, id_path, s.u)>> \o eu.log]
        ELSE IF OrFallsBack(eu.res)
        THEN [ok |-> ev.ok, res |-> ev.res,
              state |-> [u |-> eu.state, v |-> ev.state],
              app |-> ev.app,
              log |-> <<SeqEvent(pu, id_path, s.u)>> \o eu.log
                      \o <<SeqEvent(pv, id_path, s.v)>> \o ev.log]
        ELSE [ok |-> TRUE, res |-> eu.res, state |-> [s EXCEPT !.u = eu.state],
              app |-> eu.app, log |-> <<SeqEvent(pu, id_path, s.u)>> \o eu.log]

event(view, s, id_path, path, env, app) ==
    IF view.kind = "tuple" THEN TupleEvent(view, s, id_path, path, env, app)
    ELSE ConcatEvent(view, s, id_path, path, env, app)

(***************************************************************************)
(* request.  A Range<isize> is <<start, end>>; Concat::request has no      *)
(* return expression, which is NoRange.  Where Concat::request reads the   *)
(* .end or .start of what a child Concat returned, the source defines no   *)
(* value: any (env).  The result carries the log of the requests made to   *)
(* the children: the sequence asked, the anchor and the range.             *)
(***************************************************************************)
NoRange == <<>>

\* a tuple that clamps its extent to the range asked for
TupleRequestClamped(view, index, offset) ==
    LET i == index[1]
    IN  <<IF -i >= offset[1] THEN -i ELSE offset[1],
          IF view.n - i - 1 <= offset[2] THEN view.n - i - 1 ELSE offset[2]>>

TupleRequest(view, index, offset) ==
    LET i == index[1]
    IN  <<-i, view.n - i - 1>>

Max(a, b) == IF a >= b THEN a ELSE b
Min(a, b) == IF a <= b THEN a ELSE b

\* a request made to the child at path: the anchor and range it was handed,
\* the range it returned, and the bound the caller took from that range
ReqEntry(path, index, offset, r, used) ==
    [node |-> path, ix |-> index, off |-> offset, ret |-> r, used |-> used]

\* a Concat that asks V for the whole range again
LeftDeficitWhole(offset, right) == offset[2]

\* what is left to ask of V: (offset.end - right).max(0)
LeftDeficit(offset, right) == Max(offset[2] - right, 0)
\* (offset.start - left).min(0)
RightDeficit(offset, left) == Min(offset[1] - left, 0)

RECURSIVE request(_, _, _, _, _, _)
ConcatRequest(view, s, index, offset, path, env) ==
    IF Head(index) = LEFT
    THEN LET r1 == request(view.u, s.u, Tail(index), offset,
                           Append(path, LEFT), env)
             right == IF r1.ret = NoRange THEN env ELSE r1.ret[2]
             rq == LeftDeficit(offset, right)
             index2 == to_stable(view.v, s.v, First)
             r2 == request(view.v, s.v, index2.val, <<0, rq>>,
                           Append(path, RIGHT), env)
         IN  [ret |-> NoRange,
              log |-> <<ReqEntry(Append(path, LEFT), Tail(index), offset,
                                 r1.ret, right)>>
                      \o r1.log
                      \o <<ReqEntry(Append(path, RIGHT), index2.val, <<0, rq>>,
                                    r2.ret, 0)>>
                      \o r2.log]
    ELSE LET r1 == request(view.v, s.v, Tail(index), offset,
                           Append(path, RIGHT), env)
             left == IF r1.ret = NoRange THEN env ELSE r1.ret[1]
             rq == RightDeficit(offset, left)
             index2 == to_stable(view.v, s.v, Last)
             r2 == request(view.v, s.v, index2.val, <<rq, 0>>,
                           Append(path, RIGHT), env)
         IN  [ret |-> NoRange,
              log |-> <<ReqEntry(Append(path, RIGHT), Tail(index), offset,
                                 r1.ret, left)>>
                      \o r1.log
                      \o <<ReqEntry(Append(path, RIGHT), index2.val, <<rq, 0>>,
                                    r2.ret, 0)>>
                      \o r2.log]

\* whether a request anchored at index reads the range a child Concat returned
ReadsNoRange(view, index) ==
    /\ view.kind = "concat"
    /\ LET c == IF Head(index) = LEFT THEN view.u ELSE view.v
       IN  c.kind = "concat"

request(view, s, index, offset, path, env) ==
    IF view.kind = "tuple"
    THEN [ret |-> TupleRequest(view, index, offset), log |-> <<>>]
    ELSE ConcatRequest(view, s, index, offset, path, env)

VARIABLES
    view,       \* the sequence value (its shape)
    state,      \* Self::State, as build returned and rebuild/event left it
    elements,   \* the Vec<(Pod, M)> the parent holds
    nextId,     \* the next id the Cx mints
    newIds,     \* ids minted since build
    app_state,  \* the app state T
    op,         \* the call that just returned ("idle": none, "new": not built)
    arg,        \* its input
    ret,        \* what it returned
    calls,      \* the calls it made to children
    pre,        \* state, elements and app_state when it was called
    wrapper,    \* the state of a lazy-view wrapper: (wrapper state, V, V::State)
    layout      \* a LinearLayout
vars == <<view, state, elements, nextId, newIds, app_state, op, arg, ret, calls, pre,
          wrapper, layout>>

Snapshot == [state |-> state, elements |-> elements, app_state |-> app_state]

Init ==
    /\ view \in Shapes
    /\ state = <<>>
    /\ elements = <<>>
    /\ nextId = 1
    /\ newIds = 0
    /\ app_state = 0
    /\ op = "new"
    /\ arg = <<>>
    /\ ret = <<>>
    /\ calls = <<>>
    /\ pre = <<>>
    /\ wrapper = <<>>
    /\ layout = <<>>

Build ==
    /\ op = "new"
    /\ \E ext \in 0..MaxExt :
         LET b == build(view, nextId, ext)
         IN  /\ HasExt(view) \/ ext = 0
             /\ state' = b.state
             /\ elements' = b.els
             /\ nextId' = b.next
    /\ op' = "build"
    /\ arg' = <<>>
    /\ ret' = <<>>
    /\ calls' = <<>>
    /\ pre' = <<>>
    /\ UNCHANGED <<wrapper, layout, view, app_state, newIds>>

Rebuild ==
    /\ op = "idle"
    /\ \E ch \in UpTo(Children(view, state), MaxChanged) :
       \E nw \in SUBSET ch :
       \E ec \in 0..MaxExt :
         LET env == [ch |-> ch, nw |-> nw, ec |-> ec]
             r == rebuild(view, state, elements, 0, <<>>, env, nextId)
         IN  /\ HasExt(view) \/ ec = 0
             /\ newIds + Cardinality(nw) <= MaxNewIds
             /\ newIds + (r.next - nextId) <= MaxNewIds
             /\ state' = r.state
             /\ elements' = r.els
             /\ nextId' = r.next
             /\ newIds' = newIds + (r.next - nextId)
             /\ arg' = env
             /\ ret' = [ok |-> r.ok, val |-> r.flags]
             /\ calls' = r.log
    /\ op' = "rebuild"
    /\ pre' = Snapshot
    /\ UNCHANGED <<wrapper, layout, view, app_state>>

\* the id paths tried: every id minted so far and one never minted as the
\* head, nothing or one more id behind it; and the empty path
IdPaths == {<<>>} \cup {<<hd>> \o tl : hd \in 1..nextId, tl \in {<<>>, <<1>>}}

Event ==
    /\ op = "idle"
    /\ ~HasExt(view)
    /\ \E id_path \in IdPaths :
       \E res \in EventResults :
       \E mut \in BOOLEAN :
         LET env == [res |-> res, mut |-> mut]
             r == event(view, state, id_path, <<>>, env, app_state)
         IN  /\ mut => app_state < MaxApp
             /\ ChildEvents(r.log) = <<>> => (res = "Stale" /\ ~mut)
             /\ state' = r.state
             /\ app_state' = r.app
             /\ arg' = [id_path |-> id_path, env |-> env]
             /\ ret' = [ok |-> r.ok, val |-> r.res]
             /\ calls' = r.log
    /\ op' = "event"
    /\ pre' = Snapshot
    /\ UNCHANGED <<wrapper, layout, view, elements, nextId, newIds>>

Positions(n) ==
    {First, Last}
    \cup {Sequence(k) : k \in (0..(n - 1 + MaxBeyond)) \cup {U8Max, U8Max + 1}}

ToStable ==
    /\ op = "idle"
    /\ ~HasExt(view)
    /\ \E position \in Positions(count(view, state)) :
         /\ arg' = position
         /\ ret' = to_stable(view, state, position)
    /\ op' = "to_stable"
    /\ calls' = <<>>
    /\ pre' = Snapshot
    /\ UNCHANGED <<wrapper, layout>>
    /\ UNCHANGED <<view, state, elements, nextId, newIds, app_state>>

FromStable ==
    /\ op = "idle"
    /\ ~HasExt(view)
    /\ \E index \in Indices(view) :
         /\ arg' = index
         /\ ret' = from_stable(view, state, index)
    /\ op' = "from_stable"
    /\ calls' = <<>>
    /\ pre' = Snapshot
    /\ UNCHANGED <<wrapper, layout>>
    /\ UNCHANGED <<view, state, elements, nextId, newIds, app_state>>

Count ==
    /\ op = "idle"
    /\ arg' = <<>>
    /\ ret' = count(view, state)
    /\ op' = "count"
    /\ calls' = <<>>
    /\ pre' = Snapshot
    /\ UNCHANGED <<wrapper, layout>>
    /\ UNCHANGED <<view, state, elements, nextId, newIds, app_state>>

Ranges == {<<a, b>> : a \in (-MaxOff)..0, b \in 0..MaxOff}

Request ==
    /\ op = "idle"
    /\ ~HasExt(view)
    /\ \E index \in Indices(view) :
       \E offset \in Ranges :
       \E any \in (-MaxOff)..MaxOff :
         LET r == request(view, state, index, offset, <<>>, any)
         IN  /\ any # 0 => ReadsNoRange(view, index)
             /\ arg' = [index |-> index, offset |-> offset]
             /\ ret' = r.ret
             /\ calls' = r.log
    /\ op' = "request"
    /\ pre' = Snapshot
    /\ UNCHANGED <<wrapper, layout>>
    /\ UNCHANGED <<view, state, elements, nextId, newIds, app_state>>

\* the call returns to the parent, which may make the next one
Return ==
    /\ op \notin {"new", "idle"}
    /\ op' = "idle"
    /\ arg' = <<>>
    /\ ret' = <<>>
    /\ calls' = <<>>
    /\ pre' = <<>>
    /\ UNCHANGED <<wrapper, layout>>
    /\ UNCHANGED <<view, state, elements, nextId, newIds, app_state>>

Next ==
    \/ Build
    \/ Rebuild
    \/ Event
    \/ ToStable
    \/ FromStable
    \/ Count
    \/ Request
    \/ Return

Spec == Init /\ [][Next]_vars

(***************************************************************************)
(* The lazy-view wrapper (view/wrapper.rs).  The wrapper state is what gen *)
(* last derived; gen may change it (&mut) and returns the view derived     *)
(* from it.  What gen derives, what the wrapper's own event handler and    *)
(* the derived view's return, are inputs of the actions.  The state of the *)
(* derived view records the view that last built or rebuilt it.            *)
(***************************************************************************)
MaxDerived == 2
Derived == 1..MaxDerived

\* Wrapper::state
WrapperState == [derived |-> 0]

\* Wrapper::gen deriving d
gen(ws, d) == [state |-> [derived |-> d], view |-> [from |-> d]]

\* the log entry of a call: gen, V::build, V::rebuild, Wrapper::event, V::event
Call(name, v, prev, id_path, st) ==
    [call |-> name, view |-> v, prev |-> prev, id_path |-> id_path, st |-> st]
None == <<>>

WrapperBuild(d) ==
    LET g == gen(WrapperState, d)
        view_state == [of |-> g.view]
    IN  [state |-> [ws |-> g.state, view |-> g.view, vstate |-> view_state],
         log |-> <<Call("gen", None, None, None, WrapperState),
                   Call("build", g.view, None, None, None)>>]

WrapperRebuild(s, d, chg) ==
    LET g == gen(s.ws, d)
        current == g.view
    IN  [state |-> [ws |-> g.state, view |-> s.view, vstate |-> [of |-> current]],
         flags |-> chg,
         log |-> <<Call("gen", None, None, None, s.ws),
                   Call("rebuild", current, s.view, None, s.vstate)>>]

\* a wrapper that hands the event to the derived view before its own handler
WrapperEventViewFirst(s, id_path, env, app) ==
    LET second == OrFallsBack(env.vres)
    IN  [res |-> IF second THEN env.wres ELSE env.vres,
         app |-> app + (IF env.vmut THEN 1 ELSE 0)
                     + (IF second /\ env.wmut THEN 1 ELSE 0),
         log |-> <<Call("view.event", s.view, None, id_path, s.vstate)>>
                 \o IF second
                    THEN <<Call("wrapper.event", None, None, id_path, s.ws)>>
                    ELSE <<>>]

\* env.wres, env.wmut: what Wrapper::event returns and whether it mutates the
\* app state; env.vres, env.vmut: the same of the derived view's event
WrapperEvent(s, id_path, env, app) ==
    LET second == OrFallsBack(env.wres)
    IN  [res |-> IF second THEN env.vres ELSE env.wres,
         app |-> app + (IF env.wmut THEN 1 ELSE 0)
                     + (IF second /\ env.vmut THEN 1 ELSE 0),
         log |-> <<Call("wrapper.event", None, None, id_path, s.ws)>>
                 \o IF second
                    THEN <<Call("view.event", s.view, None, id_path, s.vstate)>>
                    ELSE <<>>]

WrapperSnapshot == [wrapper |-> wrapper, app_state |-> app_state]

InitWrapper ==
    /\ view = <<>>
    /\ state = <<>>
    /\ elements = <<>>
    /\ nextId = 1
    /\ newIds = 0
    /\ app_state = 0
    /\ op = "new"
    /\ arg = <<>>
    /\ ret = <<>>
    /\ calls = <<>>
    /\ pre = <<>>
    /\ wrapper = <<>>
    /\ layout = <<>>

BuildWrapper ==
    /\ op = "new"
    /\ \E d \in Derived :
         LET b == WrapperBuild(d)
         IN  /\ wrapper' = b.state
             /\ arg' = [derived |-> d]
             /\ calls' = b.log
    /\ op' = "wrapper_build"
    /\ ret' = <<>>
    /\ pre' = <<>>
    /\ UNCHANGED <<layout, view, state, elements, nextId, newIds, app_state>>

RebuildWrapper ==
    /\ op = "idle"
    /\ \E d \in Derived :
       \E chg \in BOOLEAN :
         LET r == WrapperRebuild(wrapper, d, chg)
         IN  /\ wrapper' = r.state
             /\ arg' = [derived |-> d]
             /\ ret' = r.flags
             /\ calls' = r.log
    /\ op' = "wrapper_rebuild"
    /\ pre' = WrapperSnapshot
    /\ UNCHANGED <<layout, view, state, elements, nextId, newIds, app_state>>

WrapperIdPaths == {<<1>>, <<1, 2>>}

EventWrapper ==
    /\ op = "idle"
    /\ \E id_path \in WrapperIdPaths :
       \E wres, vres \in EventResults :
       \E wmut, vmut \in BOOLEAN :
         LET env == [wres |-> wres, wmut |-> wmut, vres |-> vres, vmut |-> vmut]
             r == WrapperEvent(wrapper, id_path, env, app_state)
         IN  /\ r.app <= MaxApp
             /\ ~OrFallsBack(wres) => (vres = "Stale" /\ ~vmut)
             /\ app_state' = r.app
             /\ arg' = [id_path |-> id_path, env |-> env]
             /\ ret' = r.res
             /\ calls' = r.log
    /\ op' = "wrapper_event"
    /\ pre' = WrapperSnapshot
    /\ UNCHANGED <<wrapper, layout, view, state, elements, nextId, newIds>>

NextWrapper ==
    \/ BuildWrapper
    \/ RebuildWrapper
    \/ EventWrapper
    \/ Return

SpecWrapper == InitWrapper /\ [][NextWrapper]_vars

(***************************************************************************)
(* LinearLayout (widget/linear_layout.rs).  A Size and a Point are pairs   *)
(* <<x, y>>; lengths are small naturals.  The size each child's layout     *)
(* returns is an input of the action.  layout.given is the spacing new was *)
(* called with: it is not a field of the struct, and is kept to state what *)
(* the layout is expected to honour.                                       *)
(***************************************************************************)
MaxChildren == 2
MaxSize == 2
MaxSpacing == 1

Axes == {"Horizontal", "Vertical"}
cross(axis) == IF axis = "Horizontal" THEN "Vertical" ELSE "Horizontal"
major(axis, value) == IF axis = "Horizontal" THEN value[1] ELSE value[2]
minor(axis, value) == major(cross(axis), value)
pack(axis, mj, mn) == IF axis = "Horizontal" THEN <<mj, mn>> ELSE <<mn, mj>>

\* a Pod: the origin its parent set
Pod == [origin |-> <<0, 0>>]

\* LinearLayout::new: `let spacing = 0.0;` shadows the parameter
LinearLayoutNew(children, spacing, axis) ==
    LET shadowed == 0
    IN  [children |-> children, spacing |-> shadowed, axis |-> axis]

\* the loop of LinearLayout::layout from child index (0-based) on
RECURSIVE LayoutLoop(_, _, _, _, _)
LayoutLoop(self, sizes, index, major_used, max_minor) ==
    LET child_count == Len(self.children)
    IN  IF index >= child_count
        THEN [self |-> self, size |-> pack(self.axis, major_used, max_minor)]
        ELSE LET size == sizes[index + 1]
                 placed == [self EXCEPT !.children[index + 1].origin =
                                            pack(self.axis, major_used, 0)]
                 used == major_used + major(self.axis, size)
                        + (IF index < child_count - 1 THEN self.spacing ELSE 0)
             IN  LayoutLoop(placed, sizes, index + 1, used,
                            Max(max_minor, minor(self.axis, size)))

LinearLayoutLayout(self, sizes) == LayoutLoop(self, sizes, 0, 0, 0)

Sizes == {<<x, y>> : x, y \in 0..MaxSize}

InitLayout ==
    /\ view = <<>>
    /\ state = <<>>
    /\ elements = <<>>
    /\ nextId = 1
    /\ newIds = 0
    /\ app_state = 0
    /\ op = "new"
    /\ arg = <<>>
    /\ ret = <<>>
    /\ calls = <<>>
    /\ pre = <<>>
    /\ wrapper = <<>>
    /\ layout = <<>>

NewLayout ==
    /\ op = "new"
    /\ \E n \in 0..MaxChildren :
       \E spacing \in 0..MaxSpacing :
       \E axis \in Axes :
         /\ layout' = [self |-> LinearLayoutNew([k \in 1..n |-> Pod], spacing, axis),
                       given |-> spacing]
         /\ arg' = [n |-> n, spacing |-> spacing, axis |-> axis]
    /\ op' = "new_layout"
    /\ ret' = <<>>
    /\ calls' = <<>>
    /\ pre' = <<>>
    /\ UNCHANGED <<wrapper, view, state, elements, nextId, newIds, app_state>>

Layout ==
    /\ op = "idle"
    /\ \E sizes \in [1..Len(layout.self.children) -> Sizes] :
         LET r == LinearLayoutLayout(layout.self, sizes)
         IN  /\ layout' = [layout EXCEPT !.self = r.self]
             /\ arg' = sizes
             /\ ret' = r.size
    /\ op' = "layout"
    /\ calls' = <<>>
    /\ pre' = <<>>
    /\ UNCHANGED <<wrapper, view, state, elements, nextId, newIds, app_state>>

NextLayout ==
    \/ NewLayout
    \/ Layout
    \/ Return

SpecLayout == InitLayout /\ [][NextLayout]_vars

(***************************************************************************)
(* Properties.                                                             *)
(***************************************************************************)
IsTuple == view.kind = "tuple"
IsConcat == view.kind = "concat"
\* built, and made of tuples and Concats only
OfTuples == op # "new" /\ ~HasExt(view)

\* C1: stable-index round trip.  In every state after build and any
\* rebuilds, of every sequence of tuples and Concats, every position
\* i < count(state) has a stable index, and from_stable of that index is
\* (i, true).
StableRoundTrip ==
    OfTuples =>
        \A i \in 0..(count(view, state) - 1) :
            LET ix == to_stable(view, state, Sequence(i))
            IN  /\ ix.ok
                /\ from_stable(view, state, ix.val) = [pos |-> i, hit |-> TRUE]

\* a to_stable into the right child of a Concat, after a rebuild that
\* replaced an id, whose index from_stable takes back to the position
StableRoundTripWitness ==
    /\ op = "to_stable"
    /\ IsConcat
    /\ newIds > 0
    /\ arg.tag = "Sequence"
    /\ arg.n > 0
    /\ arg.n < count(view, state)
    /\ ret.ok
    /\ Head(ret.val) = RIGHT
    /\ from_stable(view, state, ret.val) = [pos |-> arg.n, hit |-> TRUE]

\* C2: to_stable panics whenever the position is at or beyond count(state).
ToStablePanicsBeyondCount ==
    (op = "to_stable" /\ arg.tag = "Sequence" /\ arg.n >= count(view, state))
        => ~ret.ok

\* the position from_stable is documented to return for index
RECURSIVE Documented(_, _, _)
Documented(v, s, index) ==
    IF v.kind = "tuple"
    THEN IF index[1] < v.n
         THEN [pos |-> index[1], hit |-> TRUE]
         ELSE [pos |-> v.n, hit |-> FALSE]
    ELSE IF Head(index) = LEFT
    THEN Documented(v.u, s.u, Tail(index))
    ELSE LET r == Documented(v.v, s.v, Tail(index))
         IN  [pos |-> count(v.u, s.u) + r.pos, hit |-> r.hit]

\* C3: from_stable of an index that denotes no element of the sequence
\* returns (p, false), p the position of the next live element or count;
\* the position returned is always in 0..=count(state).
FromStableMissIsFalse ==
    op = "from_stable" =>
        /\ ret.pos \in 0..count(view, state)
        /\ ~Documented(view, state, arg).hit => ret = Documented(view, state, arg)

\* C4: tuple event routing is first match by id.  An event on an N-tuple
\* whose id path is not empty and whose head is a stored id invokes exactly
\* the event of the child of the lowest such slot, with the rest of the
\* path and that child's state, and returns what the child returned.
TupleEventFirstMatch ==
    (op = "event" /\ IsTuple /\ arg.id_path # <<>>) =>
        \A i \in 1..view.n :
            (/\ pre.state.ids[i] = Head(arg.id_path)
             /\ \A j \in 1..(i - 1) : pre.state.ids[j] # Head(arg.id_path))
            => /\ calls = <<[node |-> <<>>, slot |-> i - 1,
                             tl |-> Tail(arg.id_path), st |-> pre.state.st[i]]>>
               /\ ret = [ok |-> TRUE, val |-> arg.env.res]

\* an event for the id of B of (A, B), with a longer path, handled by B
TupleEventFirstMatchWitness ==
    /\ op = "event"
    /\ IsTuple
    /\ view.n = 2
    /\ Len(arg.id_path) = 2
    /\ Head(arg.id_path) = pre.state.ids[2]
    /\ newIds > 0
    /\ Len(calls) = 1
    /\ calls[1].slot = 1
    /\ ret.val = "Action"
    /\ app_state # pre.app_state

\* C5: tuple stale routing.  An event on an N-tuple whose id path is not
\* empty and whose head is none of the stored ids returns Stale without a
\* panic, invokes no child and leaves the app state and the state as they
\* were.
TupleEventStale ==
    (/\ op = "event" /\ IsTuple /\ arg.id_path # <<>>
     /\ \A i \in 1..view.n : pre.state.ids[i] # Head(arg.id_path))
    => /\ ret = [ok |-> TRUE, val |-> "Stale"]
       /\ calls = <<>>
       /\ app_state = pre.app_state
       /\ state = pre.state

\* an event for an id a child of (A, B) had before it replaced it
TupleEventStaleWitness ==
    /\ op = "event"
    /\ IsTuple
    /\ view.n = 2
    /\ arg.id_path # <<>>
    /\ Head(arg.id_path) \in 1..2
    /\ \A i \in 1..2 : pre.state.ids[i] # Head(arg.id_path)
    /\ ret.val = "Stale"

\* the places in the log of the rebuilds of the two children of a Concat
IsRebuildOf(e, path) == e.k = "seq" /\ e.node = path
ConcatNodes == {calls[a].node : a \in {b \in 1..Len(calls) :
                   calls[b].k = "seq" /\ SubView(view, calls[b].node).kind = "concat"}}

\* C6: Concat rebuild offset propagation.  In one Concat::rebuild, U is
\* rebuilt before V, and V is handed as its offset the count U has after
\* U's rebuild in this pass.
ConcatRebuildOffset ==
    op = "rebuild" =>
        \A p \in ConcatNodes :
            \E a, b \in 1..Len(calls) :
                /\ IsRebuildOf(calls[a], Append(p, LEFT))
                /\ IsRebuildOf(calls[b], Append(p, RIGHT))
                /\ a < b
                /\ calls[b].off = count(SubView(view, Append(p, LEFT)),
                                        SubState(state, Append(p, LEFT)))

\* a pass in which U's count changed, and V was handed the new count
ConcatRebuildOffsetWitness ==
    /\ op = "rebuild"
    /\ IsConcat
    /\ \E a, b \in 1..Len(calls) :
        /\ IsRebuildOf(calls[a], <<LEFT>>)
        /\ IsRebuildOf(calls[b], <<RIGHT>>)
        /\ calls[a].cnt = 1
        /\ count(view.u, state.u) = 2
        /\ calls[b].off = 2

\* C7: rebuild touches only the sequence's own slice of the element list.
\* A sequence rebuilt at offset k hands child j of a tuple the element
\* k + j, rebuilds the left child of a Concat at k and the right child at
\* k + count(left).
RebuildOwnSlice ==
    (op = "rebuild" /\ ~HasExt(view)) =>
        /\ \A a \in 1..Len(calls) :
              calls[a].k = "child" => calls[a].el = calls[a].off + calls[a].slot
        /\ \A p \in ConcatNodes :
           \A a, b, c \in 1..Len(calls) :
              (/\ IsRebuildOf(calls[a], p)
               /\ IsRebuildOf(calls[b], Append(p, LEFT))
               /\ IsRebuildOf(calls[c], Append(p, RIGHT)))
              => /\ calls[b].off = calls[a].off
                 /\ calls[c].off = calls[a].off
                       + count(SubView(view, Append(p, LEFT)),
                               SubState(state, Append(p, LEFT)))

\* the requests a Concat made to its own two children
Direct == SelectSeq(calls, LAMBDA e : Len(e.node) = 1)

\* C8: Concat request, right-anchored branch, mirrors the left-anchored
\* one.  V is asked once, with the range as given; the deficit toward the
\* start (never positive) is asked of U, anchored at U's last element, as
\* deficit..0; V is not asked again.
ConcatRequestRightMirror ==
    (op = "request" /\ IsConcat /\ Head(arg.index) = RIGHT) =>
        /\ Len(Direct) = 2
        /\ Direct[1].node = <<RIGHT>>
        /\ Direct[1].ix = Tail(arg.index)
        /\ Direct[1].off = arg.offset
        /\ Direct[2].node = <<LEFT>>
        /\ Direct[2].ix = to_stable(view.u, state.u, Last).val
        /\ Direct[2].off = <<Min(arg.offset[1] - Direct[1].used, 0), 0>>

\* C9: Concat request, left-anchored branch.  U is asked with the range as
\* given; the deficit is max(0, offset.end - the end U returned); V is
\* asked exactly once, anchored at its first element, for 0..deficit.
ConcatRequestLeft ==
    (op = "request" /\ IsConcat /\ Head(arg.index) = LEFT) =>
        /\ Len(Direct) = 2
        /\ Direct[1].node = <<LEFT>>
        /\ Direct[1].ix = Tail(arg.index)
        /\ Direct[1].off = arg.offset
        /\ Direct[1].ret # NoRange => Direct[1].used = Direct[1].ret[2]
        /\ view.u.kind = "tuple" =>
              Direct[1].ret = <<-arg.index[2], view.u.n - arg.index[2] - 1>>
        /\ Direct[2].node = <<RIGHT>>
        /\ Direct[2].ix = to_stable(view.v, state.v, First).val
        /\ Direct[2].off = <<0, Max(0, arg.offset[2] - Direct[1].used)>>

\* a request for two more elements anchored at the first of a 2-tuple U:
\* U has one, V is asked for the other one only
ConcatRequestLeftWitness ==
    /\ op = "request"
    /\ IsConcat
    /\ view.u = Tup(2)
    /\ arg.index = Left(<<0>>)
    /\ arg.offset[2] = 2
    /\ Len(Direct) = 2
    /\ Direct[1].ret = <<0, 1>>
    /\ Direct[2].off = <<0, 1>>

\* C10: tuple request bounds.  For every arity N in 1..=10, slot i < N and
\* range asked, request of an N-tuple anchored at slot i returns
\* -i..(N-i-1) and leaves the state as it was.
TupleRequestBounds ==
    (op = "request" /\ IsTuple /\ arg.index[1] < view.n) =>
        /\ ret = <<-arg.index[1], view.n - arg.index[1] - 1>>
        /\ state = pre.state

\* a 4-tuple anchored at slot 2, asked for nothing, returns -2..1
TupleRequestBoundsWitness ==
    /\ op = "request"
    /\ view = Tup(4)
    /\ arg.index = <<2>>
    /\ arg.offset = <<0, 0>>
    /\ ret = <<-2, 1>>
    /\ newIds > 0

\* whether index denotes an element of the sequence, and its position
Anchor == Documented(view, state, arg.index)

\* C11: request never over-promises.  For a tuple or a Concat and an anchor
\* at position p of count elements, request with any range returns a range
\* whose end is at most count - 1 - p and whose start is at least -p.
RequestWithinBounds ==
    (op = "request" /\ Anchor.hit) =>
        /\ ret # NoRange
        /\ ret[2] <= count(view, state) - 1 - Anchor.pos
        /\ ret[1] >= -Anchor.pos

\* what a Concat's to_stable is to return, given what its child returned
SplitInto(side, r) == IF r.ok THEN ret = Ok(<<side>> \o r.val) ELSE ~ret.ok

Invoked(path) == \E a \in 1..Len(calls) : calls[a].slot = -1 /\ calls[a].node = path

\* the child events under the child sequence on the given side
HandledBy(side) == SelectSeq(calls, LAMBDA e : e.slot >= 0 /\ Head(e.node) = side)

\* C13: Concat event is short-circuit on first success with fallback on
\* stale.  U's event is tried first, with the id path and U's state; V's
\* event is invoked only if U's result is stale and then V's result is
\* returned; a result of U that is not stale is returned and V is not
\* invoked; at most one of the two handles and mutates the app state.
ConcatEventShortCircuit ==
    (op = "event" /\ IsConcat /\ arg.id_path # <<>>) =>
        LET eu == event(view.u, pre.state.u, arg.id_path, <<LEFT>>, arg.env,
                        pre.app_state)
            ev == event(view.v, pre.state.v, arg.id_path, <<RIGHT>>, arg.env,
                        pre.app_state)
        IN  /\ calls[1] = SeqEvent(<<LEFT>>, arg.id_path, pre.state.u)
            /\ Invoked(<<RIGHT>>) <=> eu.res = "Stale"
            /\ eu.res # "Stale" => ret = [ok |-> TRUE, val |-> eu.res]
            /\ eu.res = "Stale" =>
                  /\ ret = [ok |-> TRUE, val |-> ev.res]
                  /\ SeqEvent(<<RIGHT>>, arg.id_path, pre.state.v)
                        \in {calls[a] : a \in 1..Len(calls)}
            /\ HandledBy(LEFT) = <<>> \/ HandledBy(RIGHT) = <<>>
            /\ Len(ChildEvents(calls)) <= 1
            /\ app_state - pre.app_state <= 1

\* an event for the id of V's child: U is stale, V handles it
ConcatEventShortCircuitWitness ==
    /\ op = "event"
    /\ view = Concat(Tup(1), Tup(2))
    /\ arg.id_path # <<>>
    /\ Head(arg.id_path) = pre.state.v.ids[2]
    /\ Invoked(<<LEFT>>)
    /\ Invoked(<<RIGHT>>)
    /\ Len(HandledBy(RIGHT)) = 1
    /\ ret.val = "Action"
    /\ app_state = pre.app_state + 1

\* the child view (by tag) a "child" entry of the rebuild log is about
ChildOf(e) == SubState(pre.state, e.node).st[e.slot + 1].tag

\* the "child" entries of the rebuild log
Rebuilt == SelectSeq(calls, LAMBDA e : e.k = "child")

\* the widgets request_update was called on in the rebuild
Marked == {pre.elements[Rebuilt[a].el + 1] :
              a \in {b \in 1..Len(Rebuilt) : Rebuilt[b].changed}}

\* C15: change flags are unioned, never lost, never invented.  A rebuild
\* of tuples and Concats rebuilds every child once, returns the union of
\* the children's change results, and the widgets marked as needing an
\* update are exactly the widgets of the children that reported a change.
ChangeFlagsUnion ==
    (op = "rebuild" /\ ~HasExt(view) /\ ret.ok) =>
        /\ Len(Rebuilt) = Cardinality(Children(view, pre.state))
        /\ {ChildOf(Rebuilt[a]) : a \in 1..Len(Rebuilt)} = Children(view, pre.state)
        /\ ret.val = (arg.ch # {})
        /\ \A a \in 1..Len(Rebuilt) : Rebuilt[a].changed = (ChildOf(Rebuilt[a]) \in arg.ch)
        /\ Marked = arg.ch

\* the elements a sequence exposes, in order: a child's widget is its tag
RECURSIVE Exposed(_, _)
Exposed(v, s) ==
    CASE v.kind = "tuple" -> [i \in 1..v.n |-> s.st[i].tag]
      [] v.kind = "ext" -> s.els
      [] OTHER -> Exposed(v.u, s.u) \o Exposed(v.v, s.v)

Built == build(view, 1, 0)

\* C17: stable indices are stable across rebuilds.  For a sequence of
\* tuples and Concats, after any number of rebuilds, the stable index
\* to_stable gave for position i right after build is the one it gives
\* now, and from_stable resolves it to position i with hit, where the
\* element is the one that was there after build.
StableAcrossRebuilds ==
    OfTuples =>
        \A i \in 0..(count(view, state) - 1) :
            LET ix == to_stable(view, Built.state, Sequence(i))
            IN  /\ ix.ok
                /\ to_stable(view, state, Sequence(i)) = ix
                /\ from_stable(view, state, ix.val) = [pos |-> i, hit |-> TRUE]
                /\ elements[i + 1] = Built.els[i + 1]

\* a nested Concat after a rebuild in which a child replaced its id
StableAcrossRebuildsWitness ==
    /\ op = "rebuild"
    /\ view = Concat(Tup(1), Concat(Tup(2), Tup(1)))
    /\ arg.nw # {}
    /\ state # Built.state
    /\ to_stable(view, state, Sequence(3)) = Ok(Right(Right(<<0>>)))

\* C18: tuple slot alignment.  build of an N-tuple builds child i in slot
\* order: slot i holds the i-th id minted, child i's state and widget.
\* After any rebuilds slot i still holds child i's state and element i is
\* child i's widget, and a rebuild leaves in slot i of the id array the id
\* child i replaced its own with, or else the id that was there.
TupleSlotAlignment ==
    (IsTuple /\ op # "new") =>
        /\ \A i \in 1..view.n :
              /\ state.st[i] = ChildState(i)
              /\ elements[i] = i
        /\ \A i, j \in 1..view.n : i # j => state.ids[i] # state.ids[j]
        /\ op = "build" =>
              /\ nextId = view.n + 1
              /\ \A i \in 1..view.n : state.ids[i] = i
        /\ op = "rebuild" =>
              LET was == nextId - Cardinality(arg.nw)
              IN  \A i \in 1..view.n :
                      IF i \in arg.nw
                      THEN state.ids[i] =
                              was + Cardinality({j \in arg.nw : j < i})
                      ELSE state.ids[i] = pre.state.ids[i]

\* the second child of (A, B) replaced its id in a rebuild
TupleSlotAlignmentWitness ==
    /\ op = "rebuild"
    /\ view = Tup(2)
    /\ arg.nw = {2}
    /\ state.ids = <<1, 3>>
    /\ elements = <<1, 2>>

\* C14: the lazy-view wrapper's event gives the wrapper first refusal.  The
\* wrapper's own handler is invoked first, with the id path and the
\* wrapper state; the derived view's event is invoked, with the same id
\* path and the derived view's state, only if the wrapper's result is
\* stale, and its result is then returned; otherwise the derived view is
\* not invoked and the wrapper's result is returned.
WrapperFirstRefusal ==
    (op = "wrapper_event") =>
        /\ calls[1] = Call("wrapper.event", None, None, arg.id_path, pre.wrapper.ws)
        /\ arg.env.wres = "Stale" =>
              /\ Len(calls) = 2
              /\ calls[2] = Call("view.event", pre.wrapper.view, None,
                                 arg.id_path, pre.wrapper.vstate)
              /\ ret = arg.env.vres
        /\ arg.env.wres # "Stale" =>
              /\ Len(calls) = 1
              /\ ret = arg.env.wres
              /\ app_state - pre.app_state = (IF arg.env.wmut THEN 1 ELSE 0)

\* the wrapper declines and the derived view handles the event
WrapperFirstRefusalWitness ==
    /\ op = "wrapper_event"
    /\ arg.env.wres = "Stale"
    /\ arg.env.vres = "Action"
    /\ arg.env.vmut
    /\ Len(calls) = 2
    /\ calls[2].call = "view.event"
    /\ ret = "Action"
    /\ app_state = pre.app_state + 1

\* C19: the lazy-view wrapper keeps its stored derived view current.  After
\* build and after every rebuild the view stored in the wrapper's state is
\* the one just generated; a rebuild diffs the generated view against the
\* one generated by the preceding build or rebuild; a fallback event goes
\* to the most recently generated view.
WrapperViewCurrent ==
    /\ op \in {"wrapper_build", "wrapper_rebuild"} =>
          wrapper.view = [from |-> arg.derived]
    /\ op = "wrapper_rebuild" =>
          calls[2].prev = [from |-> pre.wrapper.ws.derived]
    /\ (op = "wrapper_event" /\ Len(calls) = 2) =>
          calls[2].view = [from |-> wrapper.ws.derived]

\* the sum of the major sizes of the first k children
RECURSIVE SumMajor(_, _, _)
SumMajor(axis, sizes, k) ==
    IF k = 0 THEN 0 ELSE SumMajor(axis, sizes, k - 1) + major(axis, sizes[k])

\* the largest minor size of the first k children
RECURSIVE MaxMinor(_, _, _)
MaxMinor(axis, sizes, k) ==
    IF k = 0 THEN 0 ELSE Max(MaxMinor(axis, sizes, k - 1), minor(axis, sizes[k]))

\* C20: LinearLayout honours the spacing it is constructed with.  With
\* n >= 1 children and spacing s, layout places child k at the major origin
\* sum of the major sizes of children 0..k plus k*s and returns the major
\* extent sum of all major sizes plus s*(n-1) and the minor extent of the
\* largest child minor size.
LayoutHonoursSpacing ==
    (op = "layout" /\ Len(layout.self.children) >= 1) =>
        LET n == Len(layout.self.children)
            axis == layout.self.axis
            s == layout.given
        IN  /\ \A k \in 0..(n - 1) :
                  major(axis, layout.self.children[k + 1].origin)
                      = SumMajor(axis, arg, k) + k * s
            /\ major(axis, ret) = SumMajor(axis, arg, n) + s * (n - 1)
            /\ minor(axis, ret) = MaxMinor(axis, arg, n)

=============================================================================
